---- MODULE Spec2Model ----
(***************************************************************************)
(* BookReader (components/BookReader.tsx): the playback / cache / word     *)
(* highlight core of the reader, as a state machine.                       *)
(*                                                                         *)
(* One action is one browser task: a user event, the resolution of an      *)
(* awaited promise, an audio node's "ended" event or an interval tick,     *)
(* together with the React render and the effects that the handler's       *)
(* state updates trigger.  A handler reads the state of the render that    *)
(* created it (its closure); an async function keeps the closure of the    *)
(* render in which it was called for its whole life.                       *)
(***************************************************************************)
EXTENDS Integers, Sequences, FiniteSets, Bags, TLC

\* ---------------------------------------------------------------- bounds

\* Number of pages of the longest book opened.
NumPages == 3

\* Number of words on a page that is not empty.
MaxWords == 2

\* Largest number of synthesis/decode operations awaited at the same time.
MaxInFlight == 2

\* Number of distinct book ids (Date.now().toString() values).
MaxBooks == 2

\* Largest number of App handler calls suspended at the same time.
MaxCalls == 2

\* ------------------------------------------------------------ vocabulary

Null == [null |-> TRUE]

\* VoiceOption
VoiceOption == {"female", "male"}

\* The base64 payload generateSpeech returns for the text of page p under
\* voice v; "" is the empty payload.
Audio(p, v) == [page |-> p, voice |-> v]

VARIABLES
    pageTexts,                  \* book.pageTexts, as words per page
    currentPage,
    voice,
    isPlaying,
    isGenerating,
    highlightedWordIndex,
    audioCache,                 \* Map<number, string>
    autoPlay,
    audioSourceRef,             \* the AudioBufferSourceNode held, or Null
    wordHighlightIntervalRef,   \* the interval handle held, or Null
    preloadingPageRef,          \* page index, or -1 for null
    isInitialMountRef,
    plays,                      \* playCurrentPage calls suspended at an await
    preloads,                   \* preloadPage calls suspended at their await
    released,                   \* started nodes no longer held by the ref
    strayTimers,                \* live intervals no longer held by the ref
    alerts,                     \* alert() dialogs raised by the last task
    playClean,                  \* history: no navigation/voice change since the last accepted play
    lastPlayOk,                 \* history: that play started its source
    pdfjsLib,                   \* window.pdfjsLib is set
    elapsedTime,                \* ensurePdfJs: elapsedTime
    intervalId,                 \* ensurePdfJs: its interval: "none", "set", "cleared"
    promise,                    \* ensurePdfJs: "none", "pending", "resolved", "rejected"
    settleCalls,                \* ensurePdfJs: calls of resolve / reject
    books,                      \* App: the book list shown
    bookStore,                  \* IndexedDB object store 'books'
    pdfStore,                   \* IndexedDB object store 'pdfs', as its keys
    calls                       \* App: handler calls suspended at an await

progVars == <<pageTexts, currentPage, voice, isPlaying, isGenerating,
              highlightedWordIndex, audioCache, autoPlay, audioSourceRef,
              wordHighlightIntervalRef, preloadingPageRef, isInitialMountRef,
              plays, preloads, released, strayTimers, alerts>>

\* utils/pdf: ensurePdfJs
pdfVars == <<pdfjsLib, elapsedTime, intervalId, promise, settleCalls>>

readerVars == <<pageTexts, currentPage, voice, isPlaying, isGenerating,
                highlightedWordIndex, audioCache, autoPlay, audioSourceRef,
                wordHighlightIntervalRef, preloadingPageRef, isInitialMountRef,
                plays, preloads, released, strayTimers, alerts, playClean, lastPlayOk>>

\* App and services/db
shelfVars == <<books, bookStore, pdfStore, calls>>

vars == <<readerVars, pdfVars, shelfVars>>

\* book.pageTexts.length
PageCount == Len(pageTexts)

Pages == 0 .. (PageCount - 1)

\* The component's state as one value, for the handlers below; a task
\* starts with no dialog raised.
St == [currentPage |-> currentPage, voice |-> voice, isPlaying |-> isPlaying,
       isGenerating |-> isGenerating,
       highlightedWordIndex |-> highlightedWordIndex,
       audioCache |-> audioCache, autoPlay |-> autoPlay,
       audioSourceRef |-> audioSourceRef,
       wordHighlightIntervalRef |-> wordHighlightIntervalRef,
       preloadingPageRef |-> preloadingPageRef,
       isInitialMountRef |-> isInitialMountRef,
       plays |-> plays, preloads |-> preloads,
       released |-> released, strayTimers |-> strayTimers, alerts |-> 0]

Commit(t) ==
    /\ currentPage' = t.currentPage
    /\ voice' = t.voice
    /\ isPlaying' = t.isPlaying
    /\ isGenerating' = t.isGenerating
    /\ highlightedWordIndex' = t.highlightedWordIndex
    /\ audioCache' = t.audioCache
    /\ autoPlay' = t.autoPlay
    /\ audioSourceRef' = t.audioSourceRef
    /\ wordHighlightIntervalRef' = t.wordHighlightIntervalRef
    /\ preloadingPageRef' = t.preloadingPageRef
    /\ isInitialMountRef' = t.isInitialMountRef
    /\ plays' = t.plays
    /\ preloads' = t.preloads
    /\ released' = t.released
    /\ strayTimers' = t.strayTimers
    /\ alerts' = t.alerts
    /\ pageTexts' = pageTexts
    /\ UNCHANGED <<pdfVars, shelfVars>>

\* ------------------------------------------------------------ page text

\* (pageText.match(/\S+/g) || []).length; 0 also for an index outside the
\* book, where pageText is undefined.
TotalWords(p) == IF p \in Pages THEN pageTexts[p + 1] ELSE 0

\* pageText?.trim() is truthy
HasText(p) == TotalWords(p) > 0

\* Map.get / Map.set / Map.has
CacheHas(c, p) == p \in DOMAIN c
CacheGet(c, p) == IF p \in DOMAIN c THEN c[p] ELSE Null
CacheSet(c, p, d) == [q \in (DOMAIN c) \cup {p} |-> IF q = p THEN d ELSE c[q]]
EmptyCache == [q \in {} |-> Null]

\* ---------------------------------------------------------- stopPlayback

\* Stopped without the line "onended = null".
StoppedKeepsHandler(n) == [audio |-> Null, onended |-> n.onended, state |-> "stopping"]

\* Node n after onended = null; stop(); disconnect(): it outputs nothing,
\* has no handler, and the browser still owes it one "ended" event.
Stopped(n) == [audio |-> Null, onended |-> Null, state |-> "stopping"]

\* A node whose "ended" event was dispatched: nothing more comes from it.
Done == [audio |-> Null, onended |-> Null, state |-> "done"]

\* A cleared interval: the handle is still a truthy number.
Cleared == [totalWords |-> 0, page |-> -1, live |-> FALSE]

\* stopPlayback that drops the node from the ref without stop().
StopPlaybackNoStop(s) ==
    LET src == s.audioSourceRef
        s1 == IF src # Null
              THEN [s EXCEPT
                      !.audioSourceRef = Null,
                      !.released = IF src.state = "playing" THEN @ \cup {src} ELSE @]
              ELSE s
        s2 == IF s1.wordHighlightIntervalRef # Null
              THEN [s1 EXCEPT !.wordHighlightIntervalRef = Null]
              ELSE s1
    IN  [s2 EXCEPT !.isPlaying = FALSE, !.highlightedWordIndex = -1]

StopPlayback(s) ==
    LET src == s.audioSourceRef
        s1 == IF src # Null
              THEN [s EXCEPT
                      !.audioSourceRef = Null,
                      !.released =
                          IF src.state = "playing"
                          THEN @ \cup {Stopped(src)}
                          ELSE @]
              ELSE s
        s2 == IF s1.wordHighlightIntervalRef # Null
              THEN [s1 EXCEPT !.wordHighlightIntervalRef = Null]
              ELSE s1
    IN  [s2 EXCEPT !.isPlaying = FALSE, !.highlightedWordIndex = -1]

\* ------------------------------------------------------------- closures

\* What a callback created by a render reads from that render.
Closure(s) == [isGenerating |-> s.isGenerating, currentPage |-> s.currentPage,
               voice |-> s.voice, autoPlay |-> s.autoPlay,
               audioCache |-> s.audioCache]

\* The closure an async playCurrentPage keeps across its awaits: of the
\* captured Map only the keys it looked up (currentPage) or will look up
\* in its preloadPage(currentPage + 1) matter, and isGenerating is not
\* read again.
Suspended(cl) ==
    [cl EXCEPT !.isGenerating = FALSE,
               !.audioCache = [q \in (DOMAIN cl.audioCache)
                                       \cap {cl.currentPage, cl.currentPage + 1}
                                 |-> cl.audioCache[q]]]

\* generateSpeech(text, voice): "" for blank text, else the payload (a
\* rejection is the separate outcome SpeechFailed / PreloadFailed).
GenerateSpeech(p, v) == IF HasText(p) THEN Audio(p, v) ELSE Null

\* ----------------------------------------------------------- preloadPage

\* preloadPage(pageIndex) up to its await, called with closure cl.
PreloadPage(s, cl, pageIndex) ==
    IF \/ pageIndex >= PageCount
       \/ CacheHas(cl.audioCache, pageIndex)
       \/ s.preloadingPageRef = pageIndex
    THEN s
    ELSE IF ~HasText(pageIndex)
    THEN s
    ELSE [s EXCEPT
            !.preloadingPageRef = pageIndex,
            !.preloads = @ (+) SetToBag({[pageIndex |-> pageIndex,
                                          voice |-> cl.voice]})]

\* A preload that ends without resetting preloadingPageRef.
PreloadFinallyKeepsMarker(s, c) ==
    [s EXCEPT !.preloads = @ (-) SetToBag({c})]

\* finally { if (preloadingPageRef.current === pageIndex) ... = null }
PreloadFinally(s, c) ==
    [s EXCEPT
       !.preloads = @ (-) SetToBag({c}),
       !.preloadingPageRef = IF @ = c.pageIndex THEN -1 ELSE @]

\* The awaited generateSpeech of a preload resolved.
PreloadDone(s, c) ==
    LET audioData == GenerateSpeech(c.pageIndex, c.voice)
        s1 == IF audioData # Null
              THEN [s EXCEPT !.audioCache = CacheSet(@, c.pageIndex, audioData)]
              ELSE s
    IN  PreloadFinally(s1, c)

\* A preload failure handled the way playCurrentPage handles its own.
PreloadErrorSurfaced(s, c) ==
    [StopPlayback(PreloadFinally(s, c)) EXCEPT !.alerts = @ + 1]

\* The awaited generateSpeech of a preload rejected: logged, swallowed.
PreloadError(s, c) == PreloadFinally(s, c)

\* -------------------------------------------------------- playCurrentPage

\* Lines 108-116: with audioData in hand, up to the await of decodeAudioData.
AfterAudio(s, cl, audioData) ==
    IF audioData # Null
    THEN IF TotalWords(cl.currentPage) = 0
         THEN [s EXCEPT !.isGenerating = FALSE]
         ELSE [s EXCEPT !.plays = @ (+) SetToBag({[cl |-> Suspended(cl), pc |-> "decode",
                                                   audioData |-> audioData]})]
    ELSE [s EXCEPT !.isGenerating = FALSE]

\* playCurrentPage() up to its first await, called with closure cl.
PlayCurrentPage(s, cl) ==
    IF cl.isGenerating
    THEN s
    ELSE LET s1 == [StopPlayback(s) EXCEPT !.isGenerating = TRUE,
                                           !.highlightedWordIndex = -1]
             audioData == CacheGet(cl.audioCache, cl.currentPage)
         IN  IF audioData = Null /\ HasText(cl.currentPage)
             THEN [s1 EXCEPT !.plays = @ (+) SetToBag({[cl |-> Suspended(cl), pc |-> "fetch",
                                                        audioData |-> Null]})]
             ELSE AfterAudio(s1, cl, audioData)

\* SpeechDone without the setAudioCache of line 104.
SpeechDoneNoInsert(s, p) ==
    AfterAudio([s EXCEPT !.plays = @ (-) SetToBag({p})], p.cl,
               GenerateSpeech(p.cl.currentPage, p.cl.voice))

\* The awaited generateSpeech of a play resolved (lines 102-116).
SpeechDone(s, p) ==
    LET audioData == GenerateSpeech(p.cl.currentPage, p.cl.voice)
        s0 == [s EXCEPT !.plays = @ (-) SetToBag({p})]
        s1 == IF audioData # Null
              THEN [s0 EXCEPT !.audioCache = CacheSet(@, p.cl.currentPage, audioData)]
              ELSE s0
    IN  AfterAudio(s1, p.cl, audioData)

\* The catch of playCurrentPage without its finally.
PlayErrorNoFinally(s, p) ==
    [s EXCEPT !.plays = @ (-) SetToBag({p}), !.alerts = @ + 1]

\* catch + finally of playCurrentPage (an awaited call rejected): the
\* error is logged and one alert() is raised.
PlayError(s, p) ==
    [s EXCEPT !.plays = @ (-) SetToBag({p}), !.alerts = @ + 1,
              !.isGenerating = FALSE]

\* The node created at lines 118-128.
NewSource(p) ==
    [audio |-> p.audioData,
     onended |-> [autoPlay |-> p.cl.autoPlay, currentPage |-> p.cl.currentPage],
     state |-> "playing"]

\* The interval created at lines 134-143.
NewTimer(p) ==
    [totalWords |-> TotalWords(p.cl.currentPage), page |-> p.cl.currentPage,
     live |-> TRUE]

\* The awaited decodeAudioData resolved (lines 118-145, then finally).
DecodeDone(s, p) ==
    LET old == s.audioSourceRef
        oldT == s.wordHighlightIntervalRef
        s1 == [s EXCEPT
                 !.plays = @ (-) SetToBag({p}),
                 !.audioSourceRef = NewSource(p),
                 !.released = IF old # Null /\ old.state = "playing"
                              THEN @ \cup {old} ELSE @,
                 !.isPlaying = TRUE,
                 !.highlightedWordIndex = 0,
                 !.wordHighlightIntervalRef = NewTimer(p),
                 !.strayTimers = IF oldT # Null /\ oldT.live
                                 THEN @ \cup {oldT} ELSE @]
        s2 == PreloadPage(s1, p.cl, p.cl.currentPage + 1)
    IN  [s2 EXCEPT !.isGenerating = FALSE]

\* ------------------------------------------------- source.onended, ticks

\* clearInterval(wordHighlightIntervalRef.current): the handle stays in the ref.
ClearHeldInterval(s) ==
    IF s.wordHighlightIntervalRef # Null
    THEN [s EXCEPT !.wordHighlightIntervalRef = Cleared]
    ELSE s

\* source.onended without its setIsPlaying(false).
OnEndedKeepsPlaying(s, h) ==
    LET s1 == ClearHeldInterval(s)
    IN  IF h.autoPlay /\ h.currentPage < PageCount - 1
        THEN [s1 EXCEPT !.currentPage = @ + 1]
        ELSE s1

\* source.onended (lines 121-127), h the handler's closure.
OnEnded(s, h) ==
    LET s1 == ClearHeldInterval([s EXCEPT !.isPlaying = FALSE])
    IN  IF h.autoPlay /\ h.currentPage < PageCount - 1
        THEN [s1 EXCEPT !.currentPage = @ + 1]
        ELSE s1

\* The browser dispatches "ended" to node n: its handler runs if it has one.
DispatchEnded(s, n) ==
    LET s1 == IF s.audioSourceRef = n
              THEN [s EXCEPT !.audioSourceRef = Done]
              ELSE [s EXCEPT !.released = @ \ {n}]
    IN  IF n.onended # Null THEN OnEnded(s1, n.onended) ELSE s1

\* A tick that starts over at word 0 instead of clearing the interval.
IntervalTickWraps(s, t) ==
    LET nextIndex == s.highlightedWordIndex + 1
    IN  [s EXCEPT !.highlightedWordIndex = IF nextIndex >= t.totalWords THEN 0
                                           ELSE nextIndex]

\* One tick of interval t (lines 135-142).
IntervalTick(s, t) ==
    LET prevIndex == s.highlightedWordIndex
        nextIndex == prevIndex + 1
    IN  IF nextIndex >= t.totalWords
        THEN ClearHeldInterval(s)
        ELSE [s EXCEPT !.highlightedWordIndex = nextIndex]

\* ---------------------------------------------------------------- effects

\* useEffect(..., [voice, stopPlayback])
VoiceEffect(s) == [StopPlayback(s) EXCEPT !.audioCache = EmptyCache]

\* The page effect with a first run that plays the page displayed.
PageEffectPlaysOnMount(s, cl) ==
    IF s.isInitialMountRef
    THEN PlayCurrentPage([s EXCEPT !.isInitialMountRef = FALSE], cl)
    ELSE LET s1 == StopPlayback(s)
         IN  IF cl.autoPlay
             THEN PlayCurrentPage(s1, cl)
             ELSE PreloadPage(s1, cl, cl.currentPage + 1)

\* The page effect without its stopPlayback().
PageEffectNoStop(s, cl) ==
    IF s.isInitialMountRef
    THEN PreloadPage([s EXCEPT !.isInitialMountRef = FALSE], cl, 1)
    ELSE IF cl.autoPlay
         THEN s
         ELSE PreloadPage(s, cl, cl.currentPage + 1)

\* useEffect(..., [currentPage, autoPlay]), cl the closure of its render.
PageEffect(s, cl) ==
    IF s.isInitialMountRef
    THEN PreloadPage([s EXCEPT !.isInitialMountRef = FALSE], cl, 1)
    ELSE LET s1 == StopPlayback(s)
         IN  IF cl.autoPlay
             THEN PlayCurrentPage(s1, cl)
             ELSE PreloadPage(s1, cl, cl.currentPage + 1)

\* The render after a handler took the state from old to new, and the
\* effects whose dependencies changed, in the order they are declared.
Render(old, new) ==
    LET cl == Closure(new)
        a == IF new.voice # old.voice THEN VoiceEffect(new) ELSE new
    IN  IF new.currentPage # old.currentPage \/ new.autoPlay # old.autoPlay
        THEN PageEffect(a, cl)
        ELSE a

\* First render: every effect runs.
MountEffects(s) == PageEffect(VoiceEffect(s), Closure(s))

\* ------------------------------------------------------------ UI handlers

HandlePlayPause(s) ==
    IF s.isPlaying THEN StopPlayback(s) ELSE PlayCurrentPage(s, Closure(s))

\* goToNextPage that also drops the cached audio.
GoToNextPageFlushes(s) ==
    IF s.currentPage < PageCount - 1
    THEN [s EXCEPT !.currentPage = @ + 1, !.audioCache = EmptyCache]
    ELSE s

GoToNextPage(s) ==
    IF s.currentPage < PageCount - 1
    THEN [s EXCEPT !.currentPage = @ + 1]
    ELSE s

GoToPrevPage(s) ==
    IF s.currentPage > 0
    THEN [s EXCEPT !.currentPage = @ - 1]
    ELSE s

SetVoice(s, v) == [s EXCEPT !.voice = v]

ToggleAutoPlay(s) == [s EXCEPT !.autoPlay = ~@]

\* ---------------------------------------------------------------- actions

InFlight(s) == BagCardinality(s.plays) + BagCardinality(s.preloads)

\* History: playClean, lastPlayOk.  u is the state after the step,
\* started tells that the step started an audio source.
Hist(u, started) ==
    LET navOrVoice == u.currentPage # currentPage \/ u.voice # voice
        accepted == BagCardinality(u.plays) > BagCardinality(plays)
    IN  /\ playClean' = IF accepted THEN TRUE
                        ELSE IF navOrVoice THEN FALSE ELSE playClean
        /\ lastPlayOk' = IF navOrVoice THEN FALSE
                         ELSE IF started THEN playClean ELSE lastPlayOk

\* A handler took the state to t: render, run the effects, commit.
Step(t, started) ==
    LET u == Render(St, t)
    IN  /\ InFlight(u) <= MaxInFlight
        /\ Commit(u)
        /\ Hist(u, started)

\* The books opened: every page full; page index 1 empty and the last page
\* of one word; a book of a single page.
Books == {[i \in 1 .. NumPages |-> MaxWords],
          [i \in 1 .. NumPages |-> IF i = 2 THEN 0
                                   ELSE IF i = NumPages THEN 1 ELSE MaxWords],
          [i \in 1 .. 1 |-> MaxWords]}

Init ==
    /\ pageTexts \in Books
    /\ currentPage = 0
    /\ voice = "female"
    /\ isPlaying = FALSE
    /\ isGenerating = FALSE
    /\ highlightedWordIndex = -1
    /\ audioCache = EmptyCache
    /\ autoPlay = FALSE
    /\ audioSourceRef = Null
    /\ wordHighlightIntervalRef = Null
    /\ preloadingPageRef = -1
    /\ isInitialMountRef = TRUE
    /\ plays = EmptyBag
    /\ preloads = EmptyBag
    /\ released = {}
    /\ strayTimers = {}
    /\ alerts = 0
    /\ playClean = FALSE
    /\ lastPlayOk = FALSE
    /\ pdfjsLib = FALSE
    /\ elapsedTime = 0
    /\ intervalId = "none"
    /\ promise = "none"
    /\ settleCalls = 0
    /\ books = {}
    /\ bookStore = {}
    /\ pdfStore = {}
    /\ calls = EmptyBag

Mount ==
    /\ isInitialMountRef
    /\ Commit(MountEffects(St))
    /\ UNCHANGED <<playClean, lastPlayOk>>

ClickPlayPause ==
    /\ ~isInitialMountRef
    /\ ~isGenerating
    /\ Step(HandlePlayPause(St), FALSE)

ClickNext ==
    /\ ~isInitialMountRef
    /\ currentPage < PageCount - 1
    /\ Step(GoToNextPage(St), FALSE)

ClickPrev ==
    /\ ~isInitialMountRef
    /\ currentPage > 0
    /\ Step(GoToPrevPage(St), FALSE)

ClickVoice ==
    /\ ~isInitialMountRef
    /\ \E v \in VoiceOption \ {voice} : Step(SetVoice(St, v), FALSE)

ClickAutoPlay ==
    /\ ~isInitialMountRef
    /\ Step(ToggleAutoPlay(St), FALSE)

PreloadResolved ==
    \E c \in BagToSet(preloads) : Step(PreloadDone(St, c), FALSE)

PreloadFailed ==
    \E c \in BagToSet(preloads) : Step(PreloadError(St, c), FALSE)

SpeechResolved ==
    \E p \in BagToSet(plays) : p.pc = "fetch" /\ Step(SpeechDone(St, p), FALSE)

SpeechFailed ==
    \E p \in BagToSet(plays) : p.pc = "fetch" /\ Step(PlayError(St, p), FALSE)

DecodeResolved ==
    \E p \in BagToSet(plays) : p.pc = "decode" /\ Step(DecodeDone(St, p), TRUE)

DecodeFailed ==
    \E p \in BagToSet(plays) : p.pc = "decode" /\ Step(PlayError(St, p), FALSE)

\* Nodes that are playing: the held one and the released ones.
Playing(s) ==
    {n \in s.released \cup {s.audioSourceRef} : n # Null /\ n.state = "playing"}

\* Playback reaches its natural end.
SourceEnded ==
    \E n \in Playing(St) : Step(DispatchEnded(St, n), FALSE)

\* The "ended" event that follows stop().
StoppedSourceEnded ==
    \E n \in released : n.state = "stopping" /\ Step(DispatchEnded(St, n), FALSE)

\* Intervals that still fire.
LiveTimers(s) ==
    {t \in s.strayTimers \cup {s.wordHighlightIntervalRef} : t # Null /\ t.live}

Tick ==
    \E t \in LiveTimers(St) : Step(IntervalTick(St, t), FALSE)

Next ==
    \/ Mount
    \/ ClickPlayPause
    \/ ClickNext
    \/ ClickPrev
    \/ ClickVoice
    \/ ClickAutoPlay
    \/ PreloadResolved
    \/ PreloadFailed
    \/ SpeechResolved
    \/ SpeechFailed
    \/ DecodeResolved
    \/ DecodeFailed
    \/ SourceEnded
    \/ StoppedSourceEnded
    \/ Tick

Spec == Init /\ [][Next]_vars

\* Auto-play reading: the user may turn pages while auto-play is off, then
\* switches auto-play on (which plays the page displayed) and issues no
\* further event; every synthesis call and decode succeeds, and every
\* call, playback and timer that is pending eventually completes.
BrowseNext ==
    /\ ~autoPlay
    /\ ClickNext

BrowsePrev ==
    /\ ~autoPlay
    /\ ClickPrev

ClickAutoPlayOn ==
    /\ ~autoPlay
    /\ ClickAutoPlay

NextAuto ==
    \/ Mount
    \/ BrowseNext
    \/ BrowsePrev
    \/ ClickAutoPlayOn
    \/ PreloadResolved
    \/ SpeechResolved
    \/ DecodeResolved
    \/ SourceEnded
    \/ Tick

SpecAuto ==
    /\ Init
    /\ [][NextAuto]_vars
    /\ WF_vars(Mount)
    /\ WF_vars(PreloadResolved)
    /\ WF_vars(SpeechResolved)
    /\ WF_vars(DecodeResolved)
    /\ WF_vars(SourceEnded)
    /\ WF_vars(Tick)

\* Play reading: every user event except a voice change; a synthesis call
\* awaited by a play eventually resolves or fails, and so does a decode.
NextPlay ==
    \/ Mount
    \/ ClickPlayPause
    \/ ClickNext
    \/ ClickPrev
    \/ ClickAutoPlay
    \/ PreloadResolved
    \/ PreloadFailed
    \/ SpeechResolved
    \/ SpeechFailed
    \/ DecodeResolved
    \/ DecodeFailed
    \/ SourceEnded
    \/ StoppedSourceEnded
    \/ Tick

SpecPlay ==
    /\ Init
    /\ [][NextPlay]_vars
    /\ WF_vars(SpeechResolved \/ SpeechFailed)
    /\ WF_vars(DecodeResolved \/ DecodeFailed)

\* ------------------------------------------------- utils/pdf: ensurePdfJs

timeout == 5000

checkInterval == 100

\* The variables of one ensurePdfJs call as one value.
Pj == [pdfjsLib |-> pdfjsLib, elapsedTime |-> elapsedTime,
       intervalId |-> intervalId, promise |-> promise,
       settleCalls |-> settleCalls]

CommitPdf(e) ==
    /\ pdfjsLib' = e.pdfjsLib
    /\ elapsedTime' = e.elapsedTime
    /\ intervalId' = e.intervalId
    /\ promise' = e.promise
    /\ settleCalls' = e.settleCalls
    /\ UNCHANGED <<readerVars, shelfVars>>

\* resolve(...) / reject(...): only the first call settles the promise.
Settle(e, outcome) ==
    [e EXCEPT !.promise = IF @ = "pending" THEN outcome ELSE @,
              !.settleCalls = @ + 1]

\* ensurePdfJs(): the executor of its promise.
EnsurePdfJs(e) ==
    [e EXCEPT !.elapsedTime = 0, !.intervalId = "set", !.promise = "pending"]

\* The interval callback that resolves without clearing its interval.
PollCallbackKeepsInterval(e) ==
    IF e.pdfjsLib
    THEN Settle(e, "resolved")
    ELSE LET e1 == [e EXCEPT !.elapsedTime = @ + checkInterval]
         IN  IF e1.elapsedTime >= timeout
             THEN Settle([e1 EXCEPT !.intervalId = "cleared"], "rejected")
             ELSE e1

\* The interval callback (lines 154-167).
PollCallback(e) ==
    IF e.pdfjsLib
    THEN Settle([e EXCEPT !.intervalId = "cleared"], "resolved")
    ELSE LET e1 == [e EXCEPT !.elapsedTime = @ + checkInterval]
         IN  IF e1.elapsedTime >= timeout
             THEN Settle([e1 EXCEPT !.intervalId = "cleared"], "rejected")
             ELSE e1

\* parsePdf calls ensurePdfJs.
CallEnsurePdfJs ==
    /\ promise = "none"
    /\ CommitPdf(EnsurePdfJs(Pj))

\* The pdf.js script finishes loading and sets window.pdfjsLib.
ScriptLoaded ==
    /\ ~pdfjsLib
    /\ CommitPdf([Pj EXCEPT !.pdfjsLib = TRUE])

\* checkInterval ms have passed on an interval that is set.
Poll ==
    /\ intervalId = "set"
    /\ CommitPdf(PollCallback(Pj))

NextPdf ==
    \/ CallEnsurePdfJs
    \/ ScriptLoaded
    \/ Poll

SpecPdf == Init /\ [][NextPdf]_vars

\* ------------------------------------------- App: book list, services/db

BookIds == 1 .. MaxBooks

\* Cover images: the one parsePdf renders, and one chosen by the user.
CoverImages == {"pdf", "custom"}

\* A Book, as far as the list and the store are concerned.
Book(id, coverImage) == [id |-> id, coverImage |-> coverImage]

\* The keys present in an object store.
Keys(store) == {b.id : b \in store}

\* books.map(book => book.id === id ? {...book, coverImage} : book), and
\* the put of the record so changed.
WithCover(bs, id, coverImage) ==
    {IF b.id = id THEN Book(id, coverImage) ELSE b : b \in bs}

Sh == [books |-> books, bookStore |-> bookStore, pdfStore |-> pdfStore,
       calls |-> calls]

CommitShelf(t) ==
    /\ books' = t.books
    /\ bookStore' = t.bookStore
    /\ pdfStore' = t.pdfStore
    /\ calls' = t.calls
    /\ UNCHANGED <<readerVars, pdfVars>>

\* Call c moves on to the state d.
Moved(sh, c, d) == [sh EXCEPT !.calls = (@ (-) SetToBag({c})) (+) SetToBag({d})]

\* Call c is over.
Finished(sh, c) == [sh EXCEPT !.calls = @ (-) SetToBag({c})]

\* handleAddBook(file) up to its await of parsePdf.
HandleAddBook(sh) ==
    [sh EXCEPT !.calls = @ (+) SetToBag({[op |-> "add", id |-> 0,
                                          coverImage |-> "pdf", pc |-> "parse"]})]

\* parsePdf resolved: newBook gets its id, db.addBook opens its transaction
\* and queues both add requests.
ParseDone(sh, c, id) == Moved(sh, c, [c EXCEPT !.id = id, !.pc = "tx"])

\* The transaction of addBook completed: both records are stored, the
\* promise resolves and the handler appends newBook to the list.
AddBookComplete(sh, c) ==
    [Finished(sh, c) EXCEPT
        !.bookStore = @ \cup {Book(c.id, c.coverImage)},
        !.pdfStore = @ \cup {c.id},
        !.books = @ \cup {Book(c.id, c.coverImage)}]

\* An awaited promise rejected: the catch logs (handleAddBook also
\* alerts); the stores keep what they had, because a transaction whose
\* request failed is aborted as a whole.
Rejected(sh, c) == Finished(sh, c)

\* A transaction aborted at commit: its writes are undone and only the
\* abort event fires, for which no handler is registered.
Aborted(sh, c) == Finished(sh, c)

\* handleUpdateBookCover(bookId, newCoverImage): db.updateBookCover opens
\* its transaction and queues the get request.
HandleUpdateBookCover(sh, bookId, newCoverImage) ==
    [sh EXCEPT !.calls = @ (+) SetToBag({[op |-> "cover", id |-> bookId,
                                          coverImage |-> newCoverImage, pc |-> "tx"]})]

\* The get found the book and the put request succeeded: the promise
\* resolves and the handler maps the list, while the transaction has
\* still to commit.
CoverPutSuccess(sh, c) ==
    [Moved(sh, c, [c EXCEPT !.pc = "commit"]) EXCEPT
        !.books = WithCover(@, c.id, c.coverImage)]

\* The transaction of updateBookCover committed.
CoverCommitted(sh, c) ==
    [Finished(sh, c) EXCEPT !.bookStore = WithCover(@, c.id, c.coverImage)]

\* handleDeleteBook(bookId), confirmed: db.deleteBook opens its
\* transaction and queues both delete requests.
HandleDeleteBook(sh, bookId) ==
    [sh EXCEPT !.calls = @ (+) SetToBag({[op |-> "delete", id |-> bookId,
                                          coverImage |-> "pdf", pc |-> "tx"]})]

\* The transaction of deleteBook completed: the promise resolves and the
\* handler filters the list.
DeleteBookComplete(sh, c) ==
    [Finished(sh, c) EXCEPT
        !.bookStore = {b \in @ : b.id # c.id},
        !.pdfStore = @ \ {c.id},
        !.books = {b \in @ : b.id # c.id}]

\* Calls of operation op at position pc.
CallsAt(op, pc) == {c \in BagToSet(calls) : c.op = op /\ c.pc = pc}

\* Transactions whose scopes overlap run one after the other: none starts
\* its requests while another has not finished.
NoOpenTx == \A c \in BagToSet(calls) : c.pc # "commit"

AddBookCalled ==
    /\ BagCardinality(calls) < MaxCalls
    /\ CommitShelf(HandleAddBook(Sh))

ParseResolved ==
    \E c \in CallsAt("add", "parse") : \E id \in BookIds :
        CommitShelf(ParseDone(Sh, c, id))

ParseRejected ==
    \E c \in CallsAt("add", "parse") : CommitShelf(Rejected(Sh, c))

AddTxComplete ==
    \E c \in CallsAt("add", "tx") :
        /\ NoOpenTx
        /\ c.id \notin Keys(bookStore) \cup pdfStore
        /\ CommitShelf(AddBookComplete(Sh, c))

AddTxError ==
    \E c \in CallsAt("add", "tx") :
        /\ NoOpenTx
        /\ CommitShelf(Rejected(Sh, c))

AddTxAborted ==
    \E c \in CallsAt("add", "tx") :
        /\ NoOpenTx
        /\ c.id \notin Keys(bookStore) \cup pdfStore
        /\ CommitShelf(Aborted(Sh, c))

UpdateBookCoverCalled ==
    /\ BagCardinality(calls) < MaxCalls
    /\ \E b \in books : \E img \in CoverImages :
          CommitShelf(HandleUpdateBookCover(Sh, b.id, img))

CoverGetError ==
    \E c \in CallsAt("cover", "tx") :
        /\ NoOpenTx
        /\ CommitShelf(Rejected(Sh, c))

CoverNotFound ==
    \E c \in CallsAt("cover", "tx") :
        /\ NoOpenTx
        /\ c.id \notin Keys(bookStore)
        /\ CommitShelf(Rejected(Sh, c))

CoverPutSucceeded ==
    \E c \in CallsAt("cover", "tx") :
        /\ NoOpenTx
        /\ c.id \in Keys(bookStore)
        /\ CommitShelf(CoverPutSuccess(Sh, c))

CoverPutError ==
    \E c \in CallsAt("cover", "tx") :
        /\ NoOpenTx
        /\ c.id \in Keys(bookStore)
        /\ CommitShelf(Rejected(Sh, c))

CoverTxComplete ==
    \E c \in CallsAt("cover", "commit") : CommitShelf(CoverCommitted(Sh, c))

CoverTxAborted ==
    \E c \in CallsAt("cover", "commit") : CommitShelf(Aborted(Sh, c))

DeleteBookCalled ==
    /\ BagCardinality(calls) < MaxCalls
    /\ \E b \in books : CommitShelf(HandleDeleteBook(Sh, b.id))

DeleteTxComplete ==
    \E c \in CallsAt("delete", "tx") :
        /\ NoOpenTx
        /\ CommitShelf(DeleteBookComplete(Sh, c))

DeleteTxError ==
    \E c \in CallsAt("delete", "tx") :
        /\ NoOpenTx
        /\ CommitShelf(Rejected(Sh, c))

DeleteTxAborted ==
    \E c \in CallsAt("delete", "tx") :
        /\ NoOpenTx
        /\ CommitShelf(Aborted(Sh, c))

NextShelf ==
    \/ AddBookCalled
    \/ ParseResolved
    \/ ParseRejected
    \/ AddTxComplete
    \/ AddTxError
    \/ AddTxAborted
    \/ UpdateBookCoverCalled
    \/ CoverGetError
    \/ CoverNotFound
    \/ CoverPutSucceeded
    \/ CoverPutError
    \/ CoverTxComplete
    \/ CoverTxAborted
    \/ DeleteBookCalled
    \/ DeleteTxComplete
    \/ DeleteTxError
    \/ DeleteTxAborted

SpecShelf == Init /\ [][NextShelf]_vars

\* ----------------------------------------------------------------- claims

Mounted == ~isInitialMountRef

\* Synthesis calls outstanding for page q among the pre-fetches B.
PreloadsFor(B, q) ==
    BagCardinality([e \in {c \in BagToSet(B) : c.pageIndex = q} |-> B[e]])

\* Synthesis calls outstanding for page q among the plays B.
FetchesFor(B, q) ==
    BagCardinality([e \in {x \in BagToSet(B) : x.pc = "fetch" /\ x.cl.currentPage = q}
                      |-> B[e]])

NumPlaying ==
    (IF audioSourceRef # Null /\ audioSourceRef.state = "playing" THEN 1 ELSE 0)
    + Cardinality({n \in released : n.state = "playing"})

NumTimers ==
    (IF wordHighlightIntervalRef # Null /\ wordHighlightIntervalRef.live THEN 1 ELSE 0)
    + Cardinality(strayTimers)

\* C1: at most one audio source is started and neither stopped nor ended,
\* and at most one highlight interval is live; a source or interval that
\* left the ref was stopped / cleared before its successor started, so no
\* playing node and no live interval exists outside the refs.
C1_OneSession ==
    /\ NumPlaying <= 1
    /\ NumTimers <= 1
    /\ \A n \in released : n.state = "stopping"
    /\ strayTimers = {}

\* C1 witness: a new source and interval are running while the "ended"
\* event of the source stopped before them is still owed.
C1_Witness ==
    /\ audioSourceRef # Null /\ audioSourceRef.state = "playing"
    /\ wordHighlightIntervalRef # Null /\ wordHighlightIntervalRef.live
    /\ \E n \in released : n.state = "stopping"

\* C2 (as claimed): every cache entry holds audio synthesized with the
\* voice currently selected.
C2_CacheHoldsCurrentVoice ==
    \A q \in DOMAIN audioCache : audioCache[q].voice = voice

\* C3 (as claimed): whatever is playing or ticking was produced from the
\* text of the page displayed.
C3_PlaybackOfCurrentPage ==
    /\ \A n \in Playing(St) : n.audio.page = currentPage
    /\ \A tm \in LiveTimers(St) : tm.page = currentPage

\* C4 (as claimed): never two synthesis calls outstanding for one page.
C4_SingleFlight ==
    \A q \in Pages : PreloadsFor(preloads, q) + FetchesFor(plays, q) <= 1

\* C5 (as claimed): while a pre-fetch of a page is in flight, no step
\* issues a foreground synthesis call for that page.
C5_PlayReusesPrefetch ==
    [][\A q \in Pages :
         PreloadsFor(preloads, q) > 0 => FetchesFor(plays', q) <= FetchesFor(plays, q)]_vars

\* C6: once a play of the page has started its source, a further play
\* accepted with no navigation and no voice change since is served from
\* the cache: the step that accepts it issues no synthesis call.
C6_SecondPlayFromCache ==
    [][(lastPlayOk /\ lastPlayOk' /\ BagCardinality(plays') > BagCardinality(plays))
         => \A x \in BagToSet(plays') : x.pc = "decode"]_vars

\* C6 witness: the second play is past its cache hit, awaiting the decode.
C6_Witness ==
    /\ lastPlayOk
    /\ \E x \in BagToSet(plays) : x.pc = "decode" /\ x.cl.currentPage = currentPage

\* The play requests that can be made now: the play button (enabled while
\* nothing is generating, and a play while nothing is playing), and the
\* page effect when auto-play is switched on (stopPlayback, then
\* playCurrentPage).
PlayRequests ==
    (IF ~isGenerating /\ ~isPlaying THEN {HandlePlayPause(St)} ELSE {})
    \cup (IF ~autoPlay THEN {Render(St, ToggleAutoPlay(St))} ELSE {})

\* C7 (as claimed): for a page with no text no synthesis call or decode is
\* ever outstanding and no source plays it, a pre-fetch of it issues
\* nothing, and a play request on it issues no synthesis call, decode or
\* source and leaves the cache unchanged, isPlaying false and
\* isGenerating false.
C7_EmptyPageNoOp ==
    Mounted =>
        /\ \A q \in Pages :
             ~HasText(q) =>
                /\ PreloadsFor(preloads, q) = 0
                /\ \A x \in BagToSet(plays) : x.cl.currentPage # q
                /\ \A n \in Playing(St) : n.audio.page # q
                /\ PreloadPage(St, Closure(St), q) = St
        /\ ~HasText(currentPage) =>
             \A u \in PlayRequests :
                /\ u.plays = plays
                /\ u.preloads = preloads
                /\ u.audioSourceRef = Null
                /\ u.audioCache = audioCache
                /\ ~u.isPlaying
                /\ ~u.isGenerating

\* No session is held: nothing was started since the last stop.
NoSession == audioSourceRef = Null /\ wordHighlightIntervalRef = Null

\* C9: stopPlayback is idempotent, changes nothing when no session is
\* held, leaves no held node playing, and the "ended" event of a node it
\* stopped changes neither isPlaying nor currentPage.
C9_StopIsFinal ==
    /\ StopPlayback(StopPlayback(St)) = StopPlayback(St)
    /\ NoSession => StopPlayback(St) = St
    /\ Playing(StopPlayback(St)) = Playing(St) \ {audioSourceRef}
    /\ \A n \in released :
         n.state = "stopping" =>
            LET u == Render(St, DispatchEnded(St, n))
            IN  u.isPlaying = isPlaying /\ u.currentPage = currentPage

\* C9 witness: a session was stopped, its "ended" event is owed, and a
\* later session plays with auto-play on before the last page.
C9_Witness ==
    /\ \E n \in released : n.state = "stopping"
    /\ isPlaying /\ autoPlay /\ currentPage < PageCount - 1

\* C10 (as claimed): when the held source reaches its natural end, the
\* auto-play flag and the page of that moment decide: with auto-play on
\* before the last page, currentPage advances by one and a play of the new
\* page is accepted; otherwise currentPage stays and nothing plays.
C10_EndFollowsCurrentSettings ==
    \A n \in Playing(St) :
        LET u == Render(St, DispatchEnded(St, n))
        IN  IF autoPlay /\ currentPage < PageCount - 1
            THEN /\ u.currentPage = currentPage + 1
                 /\ HasText(currentPage + 1) =>
                        \E x \in BagToSet(u.plays) : x.cl.currentPage = currentPage + 1
            ELSE /\ u.currentPage = currentPage
                 /\ ~u.isPlaying
                 /\ u.plays = plays

\* The book of the auto-play scenario: page 1 empty, pages 0 and 2 not.
ScenarioBook == PageCount = 3 /\ HasText(0) /\ ~HasText(1) /\ HasText(2)

\* C8 (as claimed): on the scenario book with auto-play on, no synthesis
\* call is ever outstanding for the empty page 1, and once page 0 plays
\* the session eventually plays page 2.
C8_AutoPlaySkipsEmptyPage ==
    /\ [](ScenarioBook => PreloadsFor(preloads, 1) + FetchesFor(plays, 1) = 0)
    /\ (ScenarioBook /\ autoPlay /\ currentPage = 0 /\ isPlaying)
          ~> (currentPage = 2 /\ isPlaying)

\* The play p outstanding in state s carried to its end, every call it
\* still awaits resolving.
PlayFinished(s, p) ==
    IF p.pc = "decode"
    THEN DecodeDone(s, p)
    ELSE LET s1 == SpeechDone(s, p)
             d == [p EXCEPT !.pc = "decode",
                            !.audioData = GenerateSpeech(p.cl.currentPage, p.cl.voice)]
         IN  IF d \in BagToSet(s1.plays) THEN DecodeDone(s1, d) ELSE s1

\* C11 (as claimed): a voice change leaves the session stopped on the same
\* page (no source held or playing, isPlaying false, highlight -1,
\* currentPage unchanged), and a play that was outstanding at the change
\* starts no source when its awaited calls resolve.
C11_VoiceChangeStops ==
    Mounted =>
        \A v \in VoiceOption \ {voice} :
            LET u == Render(St, SetVoice(St, v))
            IN  /\ u.audioSourceRef = Null
                /\ Playing(u) = {}
                /\ ~u.isPlaying
                /\ u.highlightedWordIndex = -1
                /\ u.currentPage = currentPage
                /\ \A p \in BagToSet(u.plays) : Playing(PlayFinished(u, p)) = {}

\* C12: while an interval is live the highlight index lies in 0 .. W-1 for
\* the W > 0 words the interval was created with; the step that resumes a
\* play after its decode starts the index at 0; a tick below W-1 advances
\* the index by exactly 1 and keeps the interval; a tick at W-1 leaves the
\* index alone and clears the interval, so that no tick follows; and while
\* an interval is live no step moves the index other than by +1 or back
\* to the 0 of a new start.
C12_WordTimer ==
    /\ [](\A t \in LiveTimers(St) :
            /\ t.totalWords > 0
            /\ highlightedWordIndex \in 0 .. (t.totalWords - 1)
            /\ LET u == Render(St, IntervalTick(St, t))
               IN  IF highlightedWordIndex < t.totalWords - 1
                   THEN /\ u.highlightedWordIndex = highlightedWordIndex + 1
                        /\ LiveTimers(u) = {t}
                   ELSE /\ u.highlightedWordIndex = highlightedWordIndex
                        /\ LiveTimers(u) = {})
    /\ [](\A p \in BagToSet(plays) :
            p.pc = "decode" =>
                LET u == Render(St, DecodeDone(St, p))
                IN  /\ u.highlightedWordIndex = 0
                    /\ LiveTimers(u) = {NewTimer(p)}
                    /\ NewTimer(p).totalWords = TotalWords(p.cl.currentPage))
    /\ [][(LiveTimers(St) # {} /\ LiveTimers(St)' # {})
            => highlightedWordIndex' \in {highlightedWordIndex,
                                          highlightedWordIndex + 1, 0}]_vars

\* C12 witness: the interval of a page of more than one word has advanced
\* the index to the last word and is still live.
C12_Witness ==
    \E t \in LiveTimers(St) :
        /\ t.totalWords > 1
        /\ highlightedWordIndex = t.totalWords - 1

\* The play p made its own synthesis call: the cache of its render had no
\* entry for its page.
Fetched(p) == ~CacheHas(p.cl.audioCache, p.cl.currentPage)

\* C13 (as claimed): when an awaited call of a play p fails, one alert is
\* raised; the session is stopped (isPlaying false, isGenerating false, no
\* source held, no interval live); the step issues no call; the cache is
\* left as it was and does not hold the payload a failed request fetched
\* for its page; and the next press of play on that page issues a
\* synthesis call (or, after a failed synthesis, finds the page that a
\* pre-fetch has cached meanwhile).
C13_ForegroundFailure ==
    \A p \in BagToSet(plays) :
        LET u == Render(St, PlayError(St, p))
            q == p.cl.currentPage
        IN  /\ u.alerts = 1
            /\ ~u.isPlaying
            /\ ~u.isGenerating
            /\ u.audioSourceRef = Null
            /\ LiveTimers(u) = {}
            /\ u.plays = plays (-) SetToBag({p})
            /\ u.preloads = preloads
            /\ u.audioCache = audioCache
            /\ (p.pc = "decode" /\ Fetched(p)) => CacheGet(u.audioCache, q) # p.audioData
            /\ u.currentPage = q =>
                  \/ FetchesFor(HandlePlayPause(u).plays, q) = 1
                  \/ p.pc = "fetch" /\ CacheHas(u.audioCache, q)

\* C14: the failure of a pre-fetch c removes c from the calls in flight,
\* clears the marker if it still names c's page, and changes nothing else:
\* the sources playing and intervals live, isPlaying, isGenerating,
\* currentPage, the highlight index and the cache stay as they are, and no
\* alert is raised.
C14_PrefetchFailureSilent ==
    \A c \in BagToSet(preloads) :
        LET u == Render(St, PreloadError(St, c))
        IN  /\ Playing(u) = Playing(St)
            /\ LiveTimers(u) = LiveTimers(St)
            /\ u.isPlaying = isPlaying
            /\ u.isGenerating = isGenerating
            /\ u.currentPage = currentPage
            /\ u.highlightedWordIndex = highlightedWordIndex
            /\ u.audioCache = audioCache
            /\ u.alerts = 0
            /\ u = [St EXCEPT !.preloads = @ (-) SetToBag({c}),
                              !.preloadingPageRef = IF @ = c.pageIndex THEN -1 ELSE @]

\* C14 witness: a pre-fetch is in flight while a session plays, its
\* interval ticks past the first word, and the cache is not empty.
C14_Witness ==
    /\ preloads # EmptyBag
    /\ isPlaying
    /\ Playing(St) # {}
    /\ LiveTimers(St) # {}
    /\ highlightedWordIndex > 0
    /\ audioCache # EmptyCache

\* C15 (as claimed): a step issues a pre-fetch synthesis call for page q
\* only if q is a page of the book and the cache holds no entry for q.
C15_PrefetchOnlyUncached ==
    [][\A q \in 0 .. NumPages :
         PreloadsFor(preloads', q) > PreloadsFor(preloads, q)
            => q \in Pages /\ ~CacheHas(audioCache, q) /\ ~CacheHas(audioCache', q)]_vars

\* Nothing of a play exists in state s: no play awaits a call, no source
\* is held, playing or owed an event, no interval is live, and both flags
\* are false.
Quiet(s) ==
    /\ s.plays = EmptyBag
    /\ s.audioSourceRef = Null
    /\ s.released = {}
    /\ LiveTimers(s) = {}
    /\ ~s.isPlaying
    /\ ~s.isGenerating

\* The pre-fetch the first mount issues: page index 1 under the initial
\* voice, if the book has that page and it is not empty.
MountPreloads ==
    IF 1 \in Pages /\ HasText(1)
    THEN SetToBag({[pageIndex |-> 1, voice |-> voice]})
    ELSE EmptyBag

\* C16: the first mount starts nothing of a play and issues exactly the
\* pre-fetch of page index 1 (none if that page is out of range or empty),
\* on page 0 with an empty cache; and what follows without a user event,
\* the pre-fetch resolving or failing, starts nothing either and leaves no
\* call in flight.
C16_FirstMountDoesNotPlay ==
    /\ [](isInitialMountRef =>
            LET m == MountEffects(St)
            IN  /\ Quiet(m)
                /\ m.currentPage = 0
                /\ m.preloads = MountPreloads
                /\ \A c \in BagToSet(m.preloads) :
                     \A w \in {Render(m, PreloadDone(m, c)), Render(m, PreloadError(m, c))} :
                        Quiet(w) /\ w.preloads = EmptyBag /\ w.currentPage = 0)
    /\ [][isInitialMountRef =>
            /\ Quiet(St)'
            /\ preloads' = MountPreloads
            /\ audioCache' = EmptyCache]_vars

\* C16 witness: the mount has run and its pre-fetch of page 1 is in
\* flight, with nothing played.
C16_Witness ==
    /\ Mounted
    /\ Quiet(St)
    /\ currentPage = 0
    /\ preloads = MountPreloads
    /\ preloads # EmptyBag
    /\ preloadingPageRef = 1
    /\ audioCache = EmptyCache

\* C17: while isGenerating is true a play is awaiting a call, and
\* isGenerating eventually returns to false; a play request that awaits
\* nothing (empty page, page of no words) returns it to false in the step
\* that accepted it.
C17_GeneratingEnds ==
    /\ [](isGenerating => plays # EmptyBag)
    /\ isGenerating ~> ~isGenerating

\* C17 witness: a play failed, its alert was raised, and the play control
\* is enabled again.
C17_Witness ==
    /\ alerts = 1
    /\ ~isGenerating
    /\ plays = EmptyBag

\* Synthesis calls outstanding for page q.
CallsFor(P, B, q) == PreloadsFor(P, q) + FetchesFor(B, q)

\* C18: every cache entry belongs to a page with text and holds a payload
\* synthesized from that page's text; an entry appears, or its payload
\* changes, only in a step in which a synthesis call for its page
\* resolved; and an entry present stays through every step, except that a
\* voice change empties the whole cache.
C18_CacheLifetime ==
    /\ [](\A q \in DOMAIN audioCache :
            /\ q \in Pages
            /\ HasText(q)
            /\ audioCache[q] # Null
            /\ audioCache[q].page = q)
    /\ [][\A q \in (DOMAIN audioCache') \ (DOMAIN audioCache) :
            CallsFor(preloads', plays', q) < CallsFor(preloads, plays, q)]_vars
    /\ [][\A q \in DOMAIN audioCache :
            \/ voice' # voice /\ audioCache' = EmptyCache
            \/ /\ q \in DOMAIN audioCache'
               /\ \/ audioCache'[q] = audioCache[q]
                  \/ CallsFor(preloads', plays', q) < CallsFor(preloads, plays, q)]_vars

\* C18 witness: a play has just failed and the cache still holds the
\* entries of two pages.
C18_Witness ==
    /\ alerts = 1
    /\ Cardinality(DOMAIN audioCache) >= 2

\* C19: resolve / reject is called exactly once when the promise has
\* settled and not before; the interval is set exactly while the promise
\* is pending and cleared once it has settled; a poll that finds the
\* library resolves, a poll that does not adds checkInterval and rejects
\* exactly when that is the 50th such poll (elapsedTime = timeout = 5000),
\* so a rejected promise has elapsedTime = timeout and a pending one less;
\* and once the interval is cleared no poll runs: nothing of the call
\* changes any more.
C19_EnsurePdfJsSettlesOnce ==
    /\ [](/\ settleCalls = (IF promise \in {"resolved", "rejected"} THEN 1 ELSE 0)
          /\ promise = "pending" <=> intervalId = "set"
          /\ promise \in {"resolved", "rejected"} <=> intervalId = "cleared"
          /\ timeout = 50 * checkInterval
          /\ promise = "pending" => elapsedTime < timeout
          /\ promise = "rejected" => elapsedTime = timeout
          /\ intervalId = "set" =>
                LET u == PollCallback(Pj)
                IN  IF pdfjsLib
                    THEN u.promise = "resolved" /\ u.elapsedTime = elapsedTime
                    ELSE /\ u.elapsedTime = elapsedTime + checkInterval
                         /\ u.promise = IF u.elapsedTime = 50 * checkInterval
                                        THEN "rejected" ELSE "pending")
    /\ [][intervalId = "cleared" =>
            UNCHANGED <<elapsedTime, intervalId, promise, settleCalls>>]_vars

\* C19 witness: the call was rejected at its 50th poll and the library
\* arrived afterwards.
C19_Witness ==
    /\ promise = "rejected"
    /\ elapsedTime = timeout
    /\ intervalId = "cleared"
    /\ pdfjsLib

\* C20 (as claimed): the two stores hold the same book ids; a handler
\* call whose awaited promise rejects (PDF extraction, a failed
\* transaction or request, 'Book not found') leaves the list as it was;
\* and the list follows the store: a book of the list, with the cover the
\* list shows, is a record of the store, save while a cover update of it
\* has still to commit.
C20_ListFollowsStore ==
    /\ Keys(bookStore) = pdfStore
    /\ \A c \in BagToSet(calls) : Rejected(Sh, c).books = books
    /\ \A b \in books :
         \/ b \in bookStore
         \/ \E c \in CallsAt("cover", "commit") : c.id = b.id

\* C21 (as claimed): the page displayed is a page of the book.
C21_CurrentPageInRange ==
    0 <= currentPage /\ currentPage <= PageCount - 1

\* C22: isPlaying is true exactly when a source that was started has been
\* neither stopped by stopPlayback nor ended, and that source is the one
\* the ref holds.
C22_IsPlayingAgrees ==
    /\ isPlaying <=> Playing(St) # {}
    /\ Playing(St) \subseteq {audioSourceRef}

\* C22 witness: the held source reached its natural end, which cleared
\* isPlaying and the interval, while the event of an earlier stopped
\* source is still owed.
C22_Witness ==
    /\ audioSourceRef = Done
    /\ wordHighlightIntervalRef = Cleared
    /\ ~isPlaying
    /\ released # {}

\* C23: the marker, when set, names a page for which a pre-fetch call is
\* outstanding, so it is null whenever none is; and a pre-fetch that
\* resolves or fails resets the marker if it names that call's page and
\* leaves it alone otherwise.
C23_MarkerNeverStuck ==
    /\ preloadingPageRef # -1 => PreloadsFor(preloads, preloadingPageRef) > 0
    /\ preloads = EmptyBag => preloadingPageRef = -1
    /\ \A c \in BagToSet(preloads) :
         \A u \in {Render(St, PreloadDone(St, c)), Render(St, PreloadError(St, c))} :
            u.preloadingPageRef = IF preloadingPageRef = c.pageIndex
                                  THEN -1 ELSE preloadingPageRef

\* C23 witness: two pre-fetches overlap and the marker names the page of
\* the later one.
C23_Witness ==
    \E c \in BagToSet(preloads) :
        /\ preloadingPageRef # -1
        /\ preloadingPageRef # c.pageIndex

\* C24: after the first mount, the task that toggles auto-play leaves no
\* source held or playing, no interval live, isPlaying false and the
\* highlight at -1; it leaves currentPage, the voice and the cache as they
\* are; switched on with no play awaiting a call, it accepts a play of the
\* page displayed (no call is made for a page without text) and issues no
\* pre-fetch; switched off, it accepts no play and issues at most one
\* call, a pre-fetch of currentPage + 1.
C24_AutoPlayToggle ==
    Mounted =>
        LET u == Render(St, ToggleAutoPlay(St))
        IN  /\ u.autoPlay = ~autoPlay
            /\ u.audioSourceRef = Null
            /\ Playing(u) = {}
            /\ LiveTimers(u) = {}
            /\ ~u.isPlaying
            /\ u.highlightedWordIndex = -1
            /\ u.currentPage = currentPage
            /\ u.voice = voice
            /\ u.audioCache = audioCache
            /\ (~autoPlay /\ plays = EmptyBag) =>
                  /\ u.preloads = preloads
                  /\ IF HasText(currentPage)
                     THEN /\ BagCardinality(u.plays) = 1
                          /\ \A x \in BagToSet(u.plays) :
                               /\ x.cl.currentPage = currentPage
                               /\ x.cl.voice = voice
                               /\ x.cl.autoPlay
                          /\ u.isGenerating
                     ELSE u.plays = EmptyBag /\ ~u.isGenerating
            /\ autoPlay =>
                  /\ u.plays = plays
                  /\ u.isGenerating = isGenerating
                  /\ \/ u.preloads = preloads
                     \/ /\ currentPage + 1 \in Pages
                        /\ u.preloads = preloads (+) SetToBag({[pageIndex |-> currentPage + 1,
                                                                voice |-> voice]})

\* C24 witness: auto-play was switched on while a session played: its
\* source is stopped with the event still owed, and the play of the page
\* displayed awaits its call.
C24_Witness ==
    /\ autoPlay
    /\ released # {}
    /\ audioSourceRef = Null
    /\ \E x \in BagToSet(plays) : x.cl.autoPlay /\ x.cl.currentPage = currentPage

====
